---- MODULE Spec2Model ----
(***************************************************************************)
(* Model of the aws_lambda_creator_demo repository.                        *)
(*                                                                         *)
(*  - lambda_example/index.py: the request handler (lambda_handler) and    *)
(*    its helpers parse, _get, get_latest_update, get_month_count, save.   *)
(*  - lambda_with_api_demo.py: the provisioning script (LambdaCreator).    *)
(*                                                                         *)
(* The two flows share no state; Spec is the handler, SpecCreator the      *)
(* provisioning script.                                                    *)
(***************************************************************************)
EXTENDS Integers, Sequences, FiniteSets, TLC

VARIABLES
    \* ---- lambda_handler (index.py) ----
    pc,           \* position of the running invocation
    event,        \* the request event of the running invocation
    title,        \* local `title` after line 117
    wikiReq,      \* GET issued by get_latest_update (params)
    wikiResp,     \* what requests.get answered for the history page
    last_date,    \* local `last_date`
    xtoolsReq,    \* GET issued by get_month_count (url path segments)
    xtoolsResp,   \* what requests.get answered for the statistics page
    month_count,  \* local `month_count`
    parseLog,     \* calls of parse() in this invocation, in order
    s3Req,        \* put_object issued by save (key, body)
    raised,       \* the exception the try block caught, if any
    calls,        \* external calls attempted in this invocation
    trace,        \* states the invocation went through, in order
    resp,         \* the returned response envelope
    storage,      \* the S3 bucket 'lambda-demo': set of objects [key, body]
    storage0,     \* the bucket as it was when the invocation started
    prev,         \* the last successful invocation (inputs and what it wrote)
    invocations,  \* invocations started so far
    \* ---- LambdaCreator (lambda_with_api_demo.py) ----
    cpc,          \* position inside LambdaCreator.run
    conf,         \* conf.py flags: IS_REQUIREMENTS, IS_API_CREATE, IS_REMOVE
    cloud,        \* AWS side: function / role / REST API present
    self,         \* LambdaCreator fields: lambda_arn, apig_client, api_id
    ccalls        \* wrapper / client calls made by this run

hvars == <<pc, event, title, wikiReq, wikiResp, last_date, xtoolsReq,
           xtoolsResp, month_count, parseLog, s3Req, raised, calls, trace,
           resp, storage, storage0, prev, invocations>>
cvars == <<cpc, conf, cloud, self, ccalls>>
vars == <<hvars, cvars>>

(***************************************************************************)
(* Bounds of the model                                                     *)
(***************************************************************************)
MaxTitleLen == 2
MaxInvocations == 2

(***************************************************************************)
(* Python values                                                           *)
(***************************************************************************)
None == [none |-> TRUE]
Str(s) == [none |-> FALSE, s |-> s]

\* str(v) inside an f-string, for None or a str
py_str(v) == IF v.none THEN "None" ELSE v.s

\* result of a call: a value, or a raised exception
Ok(v) == [ok |-> TRUE, val |-> v]
Raise(type, text) == [ok |-> FALSE, type |-> type, text |-> text]

(***************************************************************************)
(* Titles: strings over a two-letter alphabet, one of them whitespace      *)
(***************************************************************************)
Chars == {" ", "a"}
Whitespace == {" "}

RECURSIVE SeqsUpTo(_, _)
SeqsUpTo(S, n) ==
    IF n = 0 THEN {<<>>}
    ELSE LET shorter == SeqsUpTo(S, n - 1)
         IN shorter \cup {Append(s, c) : s \in {t \in shorter : Len(t) = n - 1}, c \in S}

Titles == SeqsUpTo(Chars, MaxTitleLen)

RECURSIVE lstrip(_)
lstrip(s) ==
    IF s # <<>> /\ Head(s) \in Whitespace THEN lstrip(Tail(s)) ELSE s

RECURSIVE rstrip(_)
rstrip(s) ==
    IF s # <<>> /\ s[Len(s)] \in Whitespace
    THEN rstrip(SubSeq(s, 1, Len(s) - 1)) ELSE s

\* str.strip()
strip_left_only(s) == lstrip(s)
strip(s) == rstrip(lstrip(s))

\* Python truthiness of a str
truthy_str(s) == s # <<>>

(***************************************************************************)
(* Request events.  queryStringParameters is absent, None, {} or a dict;   *)
(* a dict has other keys only, or 'title' mapped to None or to a str.      *)
(***************************************************************************)
QsMissing == {[qs |-> "absent"], [qs |-> "null"], [qs |-> "empty"]}
QsNoTitle == {[qs |-> "dict", title |-> "absent"], [qs |-> "dict", title |-> "null"]}
QsTitle == {[qs |-> "dict", title |-> "str", value |-> t] : t \in Titles}
Events == QsMissing \cup QsNoTitle \cup QsTitle

\* `not query_string`
qs_falsy_none_only(e) == e.qs \in {"absent", "null"}
qs_falsy(e) == e.qs \in {"absent", "null", "empty"}

\* query_string.get('title')
get_title(e) ==
    IF e.qs = "dict" /\ e.title = "str" THEN Str(e.value) ELSE None

\* `not title`
title_falsy(t) == t.none \/ ~truthy_str(t.s)

(***************************************************************************)
(* Timestamps                                                              *)
(***************************************************************************)
MonthNames == <<"January", "February", "March", "April", "May", "June", "July",
                "August", "September", "October", "November", "December">>

IsLeap(y) == (y % 4 = 0 /\ y % 100 # 0) \/ y % 400 = 0

DaysInMonth(y, m) ==
    IF m = 2 THEN (IF IsLeap(y) THEN 29 ELSE 28)
    ELSE IF m \in {4, 6, 9, 11} THEN 30 ELSE 31

\* text of a page element: matches '%H:%M, %d %B %Y' field by field, or not
Text(hh, mm, dd, month, yyyy) ==
    [shaped |-> TRUE, hh |-> hh, mm |-> mm, dd |-> dd, month |-> month, yyyy |-> yyyy]
Garbage == [shaped |-> FALSE]

LU == Text(0, 48, 23, "July", 2022)        \* '00:48, 23 July 2022'
DT == Text(12, 33, 10, "May", 2022)        \* '12:33, 10 May 2022'
FirstDay == Text(7, 5, 1, "December", 2021)
BadDay == Text(10, 0, 31, "June", 2022)    \* no such day
BadMonth == Text(10, 0, 3, "Juli", 2022)   \* no such month name

\* datetime.strptime(text, '%H:%M, %d %B %Y')
strptime(text) ==
    IF ~text.shaped
    THEN Raise("ValueError", "time data does not match format")
    ELSE IF ~(\E m \in 1..12 : MonthNames[m] = text.month)
    THEN Raise("ValueError", "time data does not match format")
    ELSE IF text.hh \notin 0..23 \/ text.mm \notin 0..59 \/ text.dd \notin 1..31
    THEN Raise("ValueError", "time data does not match format")
    ELSE LET m == CHOOSE k \in 1..12 : MonthNames[k] = text.month
         IN IF text.dd > DaysInMonth(text.yyyy, m)
            THEN Raise("ValueError", "day is out of range for month")
            ELSE Ok([year |-> text.yyyy, month |-> m, day |-> text.dd,
                     hour |-> text.hh, minute |-> text.mm])

\* datetime.date()
date_of(dt) == [year |-> dt.year, month |-> dt.month, day |-> dt.day]

\* date.replace(day=d)
replace_day_wrong(d, day) == [d EXCEPT !.month = day]
replace_day(d, day) == [d EXCEPT !.day = day]

\* str(datetime): 'YYYY-MM-DD HH:MM:SS'
str_datetime(dt) ==
    [year |-> dt.year, month |-> dt.month, day |-> dt.day, sep |-> " ",
     hour |-> dt.hour, minute |-> dt.minute, second |-> 0]

\* datetime.isoformat(): 'YYYY-MM-DDTHH:MM:SS'
isoformat(dt) ==
    [year |-> dt.year, month |-> dt.month, day |-> dt.day, sep |-> "T",
     hour |-> dt.hour, minute |-> dt.minute, second |-> 0]

(***************************************************************************)
(* Upstream pages, as the selectors of parse() see them                    *)
(***************************************************************************)
\* an element of class mw-changeslist-date and its .contents
El(text) == [contents |-> <<text>>]
EmptyEl == [contents |-> <<>>]

\* the history page: its elements of class mw-changeslist-date, in document order
WikiPages ==
    { <<>>,
      <<El(LU), El(DT)>>,
      <<El(FirstDay)>>,
      <<El(BadDay)>>,
      <<El(BadMonth)>>,
      <<El(Garbage), El(LU)>>,
      <<EmptyEl, El(LU)>> }

\* what the history endpoint sends with a 404
WikiErrorPages == { <<>> }

\* a <tr>: without a td.sort-entry--edits, or with one (data-value set or not)
NoCell == [td |-> FALSE]
Cell(v) == [td |-> TRUE, data_value |-> v]

\* the statistics page: whether <section id="month-counts"> exists, and its <tr>s
XtoolsPages ==
    { [section |-> FALSE, rows |-> <<>>],
      [section |-> TRUE, rows |-> <<NoCell>>],
      [section |-> TRUE, rows |-> <<NoCell, Cell(Str("15")), Cell(Str("7"))>>],
      [section |-> TRUE, rows |-> <<Cell(None), Cell(Str("15"))>>] }

\* what the statistics endpoint sends with a 404
XtoolsErrorPages ==
    { [section |-> FALSE, rows |-> <<>>],
      [section |-> TRUE, rows |-> <<>>] }

\* what requests.get(..., timeout=60) can do
Answers(pages, errorPages) ==
    {[outcome |-> "timeout"], [outcome |-> "connection"]}
    \cup {[outcome |-> "response", status |-> 200, body |-> p] : p \in pages}
    \cup {[outcome |-> "response", status |-> 404, body |-> p] : p \in errorPages}

NoAnswer == [outcome |-> "none"]

(***************************************************************************)
(* index.py: parse, _get, get_latest_update, get_month_count, save         *)
(***************************************************************************)
\* the for loop of parse(), rows taken in document order
RECURSIVE scan_rows(_)
scan_rows(rows) ==
    IF rows = <<>> THEN Ok(None)
    ELSE IF Head(rows).td THEN Ok(Head(rows).data_value)
    ELSE scan_rows(Tail(rows))

parse(page, source) ==
    IF source = "wiki"
    THEN IF page = <<>> THEN Raise("IndexError", "list index out of range")
         ELSE IF page[1].contents = <<>>
         THEN Raise("IndexError", "list index out of range")
         ELSE Ok(page[1].contents[1])
    ELSE IF ~page.section
         THEN Raise("AttributeError", "'NoneType' object has no attribute 'find_all'")
         ELSE scan_rows(page.rows)

\* _get: the answer of requests.get stands for the network
_get(answer, source) ==
    IF answer.outcome = "timeout" THEN Raise("ReadTimeout", "Read timed out.")
    ELSE IF answer.outcome = "connection"
    THEN Raise("ConnectionError", "Max retries exceeded")
    ELSE parse(answer.body, source)

\* does _get reach parse(), and with what
parse_call(answer, source) ==
    IF answer.outcome = "response"
    THEN <<[source |-> source, status |-> answer.status, page |-> answer.body,
            result |-> parse(answer.body, source)]>>
    ELSE <<>>

wiki_params(t) == [title |-> t, action |-> "history"]

get_latest_update(answer) ==
    LET text == _get(answer, "wiki")
    IN IF text.ok THEN strptime(text.val) ELSE text

\* the path segments get_month_count formats into the URL
xtools_url(t, date) ==
    LET end_date == date_of(date)
        start_date == replace_day(end_date, 1)
    IN [title |-> t, start_date |-> start_date, end_date |-> end_date]

get_month_count(answer) == _get(answer, "xtools")

file_name_versioned(t) == t \o <<ToString(invocations), ".json">>
file_name(t) == t \o <<".json">>

save_data(date, count) ==
    [number_updates_last_month |-> count, latest_update_time |-> isoformat(date)]

\* json.dumps of None / str
json_value(v) == IF v.none THEN [json |-> "null"] ELSE [json |-> "string", s |-> v.s]

\* json.dumps(data): the members by name
json_dumps(data) ==
    [k \in DOMAIN data |->
        IF k = "number_updates_last_month" THEN json_value(data[k])
        ELSE [json |-> "string", s |-> data[k]]]

\* S3 put_object: the key holds the new body, whatever it held before
put_object(bucket, key, body) ==
    {o \in bucket : o.key # key} \cup {[key |-> key, body |-> body]}

NoPut == [sent |-> FALSE]

(***************************************************************************)
(* lambda_handler                                                          *)
(***************************************************************************)
MissingQueryMessage == [tmpl |-> "ERROR : Bad Request(Missing query parameters)."]
MissingTitleMessage == [tmpl |-> "ERROR : Bad Request(Missing title)."]

bad_request(message) == [statusCode |-> 400, message |-> message]

error_response_generic(e) ==
    [statusCode |-> 500, message |-> [tmpl |-> "ERROR : {e}", e |-> "Internal error"]]
error_response(e) ==
    [statusCode |-> 500, message |-> [tmpl |-> "ERROR : {e}", e |-> e.text]]

success_response(t, date, count) ==
    [statusCode |-> 200,
     message |-> [tmpl |-> "File {title}.json saved successful. Latest update: {last_date}. Month counts: {month_count}",
                  title |-> t, last_date |-> str_datetime(date),
                  month_count |-> py_str(count)]]

Unset == [unset |-> TRUE]
NoResp == [statusCode |-> 0]
NoPrev == [valid |-> FALSE]
NoCalls == [wiki |-> 0, xtools |-> 0, s3 |-> 0]

\* where the handler goes after a step of the try block (lines 118-128)
next_state_ignoring(step, result) ==
    CASE step = "ResolvingTime" -> "ResolvingCount"
      [] step = "ResolvingCount" -> "Persisting"
      [] step = "Persisting" -> "Done"
next_state(step, result) ==
    IF ~result.ok THEN "Failed"
    ELSE CASE step = "ResolvingTime" -> "ResolvingCount"
           [] step = "ResolvingCount" -> "Persisting"
           [] step = "Persisting" -> "Done"

Locals0 ==
    /\ title = Unset /\ wikiReq = Unset /\ wikiResp = NoAnswer
    /\ last_date = Unset /\ xtoolsReq = Unset /\ xtoolsResp = NoAnswer
    /\ month_count = Unset /\ parseLog = <<>> /\ s3Req = NoPut
    /\ raised = Unset /\ calls = NoCalls /\ resp = NoResp

HandlerInit ==
    /\ pc = "idle" /\ event = Unset /\ trace = <<>>
    /\ Locals0
    /\ storage = {} /\ storage0 = {} /\ prev = NoPrev /\ invocations = 0

\* the runtime calls lambda_handler(event, context)
Invoke(e) ==
    /\ pc = "idle"
    /\ invocations < MaxInvocations
    /\ invocations' = invocations + 1
    /\ event' = e
    /\ pc' = "Validating"
    /\ trace' = <<"Validating">>
    /\ storage0' = storage
    /\ UNCHANGED <<title, wikiReq, wikiResp, last_date, xtoolsReq, xtoolsResp,
                   month_count, parseLog, s3Req, raised, calls, resp, storage, prev, cvars>>

\* lines 104-117
Validate ==
    /\ pc = "Validating"
    /\ IF qs_falsy(event)
       THEN /\ resp' = bad_request(MissingQueryMessage)
            /\ pc' = "Failed"
            /\ title' = title
       ELSE IF title_falsy(get_title(event))
       THEN /\ resp' = bad_request(MissingTitleMessage)
            /\ pc' = "Failed"
            /\ title' = title
       ELSE /\ title' = strip(get_title(event).s)
            /\ pc' = "ResolvingTime"
            /\ resp' = resp
    /\ trace' = Append(trace, pc')
    /\ UNCHANGED <<event, wikiReq, wikiResp, last_date, xtoolsReq, xtoolsResp,
                   month_count, parseLog, s3Req, raised, calls, storage,
                   storage0, prev, invocations, cvars>>

\* line 119: last_date = get_latest_update(title)
ResolveTime(answer) ==
    /\ pc = "ResolvingTime"
    /\ LET r == get_latest_update(answer)
       IN /\ wikiReq' = wiki_params(title)
          /\ wikiResp' = answer
          /\ calls' = [calls EXCEPT !.wiki = @ + 1]
          /\ parseLog' = parseLog \o parse_call(answer, "wiki")
          /\ pc' = next_state("ResolvingTime", r)
          /\ IF r.ok
             THEN last_date' = r.val /\ UNCHANGED <<raised, resp>>
             ELSE /\ raised' = r
                  /\ resp' = error_response(r)
                  /\ last_date' = last_date
    /\ trace' = Append(trace, pc')
    /\ UNCHANGED <<event, title, xtoolsReq, xtoolsResp, month_count, s3Req,
                   storage, storage0, prev, invocations, cvars>>

\* line 121: month_count = get_month_count(title, last_date)
ResolveCount(answer) ==
    /\ pc = "ResolvingCount"
    /\ LET r == get_month_count(answer)
       IN /\ xtoolsReq' = xtools_url(title, last_date)
          /\ xtoolsResp' = answer
          /\ calls' = [calls EXCEPT !.xtools = @ + 1]
          /\ parseLog' = parseLog \o parse_call(answer, "xtools")
          /\ pc' = next_state("ResolvingCount", r)
          /\ IF r.ok
             THEN month_count' = r.val /\ UNCHANGED <<raised, resp>>
             ELSE /\ raised' = r
                  /\ resp' = error_response(r)
                  /\ month_count' = month_count
    /\ trace' = Append(trace, pc')
    /\ UNCHANGED <<event, title, wikiReq, wikiResp, last_date, s3Req,
                   storage, storage0, prev, invocations, cvars>>

\* save(): what it sends, and what comes of it when S3 accepts or refuses
save(t, date, count, accepted) ==
    LET put == [sent |-> TRUE, key |-> file_name(t),
                body |-> json_dumps(save_data(date, count))]
    IN IF accepted
       THEN [result |-> Ok(None), put |-> put,
             bucket |-> put_object(storage, put.key, put.body)]
       ELSE [result |-> Raise("ClientError", "An error occurred when calling the PutObject operation"),
             put |-> put, bucket |-> storage]

\* line 123 and lines 130-137: save(title, last_date, month_count), then the 200
Persist(accepted) ==
    /\ pc = "Persisting"
    /\ LET w == save(title, last_date, month_count, accepted)
       IN /\ s3Req' = w.put
          /\ storage' = w.bucket
          /\ calls' = [calls EXCEPT !.s3 = @ + 1]
          /\ pc' = next_state("Persisting", w.result)
          /\ IF w.result.ok
             THEN /\ resp' = success_response(title, last_date, month_count)
                  /\ raised' = raised
             ELSE /\ raised' = w.result
                  /\ resp' = error_response(w.result)
    /\ trace' = Append(trace, pc')
    /\ UNCHANGED <<event, title, wikiReq, wikiResp, last_date, xtoolsReq,
                   xtoolsResp, month_count, parseLog, storage0, prev, invocations, cvars>>

\* `return resp` (lines 110, 116, 128, 137): the invocation is over
Return ==
    /\ pc \in {"Done", "Failed"}
    /\ pc' = "idle"
    /\ prev' = IF pc = "Done"
               THEN [valid |-> TRUE, title |-> event.value, wiki |-> wikiResp.body,
                     xtools |-> xtoolsResp.body, key |-> s3Req.key, body |-> s3Req.body]
               ELSE prev
    /\ event' = Unset /\ trace' = <<>>
    /\ title' = Unset /\ wikiReq' = Unset /\ wikiResp' = NoAnswer
    /\ last_date' = Unset /\ xtoolsReq' = Unset /\ xtoolsResp' = NoAnswer
    /\ month_count' = Unset /\ parseLog' = <<>> /\ s3Req' = NoPut
    /\ raised' = Unset /\ calls' = NoCalls /\ resp' = NoResp
    /\ UNCHANGED <<storage, storage0, invocations, cvars>>

Next ==
    \/ \E e \in Events : Invoke(e)
    \/ Validate
    \/ \E a \in Answers(WikiPages, WikiErrorPages) : ResolveTime(a)
    \/ \E a \in Answers(XtoolsPages, XtoolsErrorPages) : ResolveCount(a)
    \/ \E accepted \in BOOLEAN : Persist(accepted)
    \/ Return

CreatorIdle ==
    /\ cpc = [at |-> "off", by |-> "none"]
    /\ conf = Unset /\ cloud = Unset /\ self = Unset /\ ccalls = Unset

Init == HandlerInit /\ CreatorIdle
Spec == Init /\ [][Next]_vars

(***************************************************************************)
(* Properties of lambda_handler                                            *)
(***************************************************************************)
Running == pc # "idle"
Validated == pc \notin {"idle", "Validating"}
Terminal == pc \in {"Done", "Failed"}

AllWhitespace(s) == \A i \in 1..Len(s) : s[i] \in Whitespace

\* t is s without its leading and trailing whitespace
IsTrimOf(t, s) ==
    \E i \in 1..(Len(s) + 1), j \in 0..Len(s) :
        /\ t = SubSeq(s, i, j)
        /\ \A k \in 1..(i - 1) : s[k] \in Whitespace
        /\ \A k \in (j + 1)..Len(s) : s[k] \in Whitespace
        /\ t # <<>> => (t[1] \notin Whitespace /\ t[Len(t)] \notin Whitespace)

\* d1 <= d2 on dates
date_le(d1, d2) ==
    \/ d1.year < d2.year
    \/ d1.year = d2.year /\ d1.month < d2.month
    \/ d1.year = d2.year /\ d1.month = d2.month /\ d1.day <= d2.day

MonthNumber(name) == CHOOSE k \in 1..12 : MonthNames[k] = name

\* the invocation entered state s / has left state s
Entered(s) == \E i \in 1..Len(trace) : trace[i] = s
Left(s) == \E i \in 1..(Len(trace) - 1) : trace[i] = s

NoExternalCall ==
    /\ calls = NoCalls /\ wikiReq = Unset /\ xtoolsReq = Unset /\ s3Req = NoPut
    /\ parseLog = <<>> /\ storage = storage0

TitleMissing ==
    /\ event.qs = "dict"
    /\ event.title \in {"absent", "null"} \/ AllWhitespace(event.value)

\* C1: whenever the parameter set is present but `title` is absent, empty or
\* whitespace-only, the handler ends in Failed with status 400 and the message
\* "ERROR : Bad Request(Missing title).", having started no time resolution,
\* count resolution or persistence; no title that is empty after trimming
\* reaches a resolver or becomes a storage key.
C1_MissingTitleRejected ==
    /\ (Validated /\ TitleMissing) =>
          /\ pc = "Failed"
          /\ resp.statusCode = 400
          /\ resp.message = [tmpl |-> "ERROR : Bad Request(Missing title)."]
          /\ NoExternalCall
    /\ wikiReq # Unset => wikiReq.title # <<>>
    /\ xtoolsReq # Unset => xtoolsReq.title # <<>>
    /\ s3Req.sent => s3Req.key # <<".json">>

StepStates == {"ResolvingTime", "ResolvingCount", "Persisting"}

\* C2: if get_latest_update, get_month_count or save raises, the handler ends
\* in Failed with status 500 and the message "ERROR : <exception text>", and
\* the invocation has written no object to storage.
C2_StepFailureGives500 ==
    LET stepRaised ==
            \/ raised # Unset
            \/ wikiResp.outcome \in {"timeout", "connection"}
            \/ xtoolsResp.outcome \in {"timeout", "connection"}
            \/ (Terminal /\ Len(trace) >= 2 /\ trace[Len(trace) - 1] \in StepStates
                         /\ pc = "Failed")
    IN stepRaised =>
          /\ pc = "Failed"
          /\ raised # Unset
          /\ trace[Len(trace) - 1] \in StepStates
          /\ resp.statusCode = 500
          /\ resp.message = [tmpl |-> "ERROR : {e}", e |-> raised.text]
          /\ storage = storage0

C2_Witness ==
    /\ pc = "Failed" /\ raised # Unset /\ raised.type = "ClientError"
    /\ s3Req.sent /\ storage0 # {}

\* C3: a request whose query-parameter set is absent, null or empty gets
\* status 400 with "ERROR : Bad Request(Missing query parameters).", and the
\* invocation attempts no fetch and no storage write.
C3_MissingQueryRejected ==
    (Validated /\ event.qs \in {"absent", "null", "empty"}) =>
        /\ pc = "Failed"
        /\ trace = <<"Validating", "Failed">>
        /\ resp.statusCode = 400
        /\ resp.message = [tmpl |-> "ERROR : Bad Request(Missing query parameters)."]
        /\ NoExternalCall

C3_Witness ==
    /\ pc = "Failed" /\ event.qs = "empty" /\ resp.statusCode = 400
    /\ storage # {}

Order == <<"Validating", "ResolvingTime", "ResolvingCount", "Persisting", "Done">>

InOrder(t) == Len(t) <= Len(Order) /\ \A i \in 1..Len(t) : t[i] = Order[i]

\* C4: the steps of one invocation run in the order Validating, ResolvingTime,
\* ResolvingCount, Persisting, Done; each external call is attempted at most
\* once; a step starts only after the earlier ones completed without raising;
\* the first failure goes straight to Failed; a run that reaches Done made
\* each of the three calls exactly once.
C4_StrictOrder ==
    Running =>
        /\ trace # <<>> /\ trace[Len(trace)] = pc
        /\ \/ InOrder(trace)
           \/ /\ pc = "Failed"
              /\ InOrder(SubSeq(trace, 1, Len(trace) - 1))
              /\ Len(trace) \in 2..Len(Order)
        /\ calls.wiki = (IF Left("ResolvingTime") THEN 1 ELSE 0)
        /\ calls.xtools = (IF Left("ResolvingCount") THEN 1 ELSE 0)
        /\ calls.s3 = (IF Left("Persisting") THEN 1 ELSE 0)
        /\ Len(parseLog) <= calls.wiki + calls.xtools
        /\ Entered("ResolvingCount") => (last_date # Unset /\ wikiResp.outcome = "response")
        /\ Entered("Persisting") => (month_count # Unset /\ xtoolsResp.outcome = "response")
        /\ Entered("Done") => s3Req.sent
        /\ pc # "Failed" => raised = Unset
        /\ pc = "Done" => calls = [wiki |-> 1, xtools |-> 1, s3 |-> 1]

C4_Witness == pc = "Done" /\ calls = [wiki |-> 1, xtools |-> 1, s3 |-> 1]

C4_WitnessShortCircuit ==
    /\ pc = "Failed" /\ trace = <<"Validating", "ResolvingTime", "ResolvingCount", "Failed">>
    /\ calls = [wiki |-> 1, xtools |-> 1, s3 |-> 0]

\* C5: a request with a non-empty title whose three steps do not raise (also
\* when the month count is None) persists the result and gets status 200 with
\* "File {title}.json saved successful. Latest update: {timestamp}. Month
\* counts: {count}" for the trimmed title, the resolved timestamp and the
\* resolved count; status 200 is returned only after save completed.
C5_SuccessResponse ==
    /\ (Terminal /\ event.qs = "dict" /\ event.title = "str" /\ event.value # <<>>
          /\ raised = Unset) =>
          LET text == wikiResp.body[1].contents[1]
              cell == CHOOSE i \in 1..Len(xtoolsResp.body.rows) :
                          /\ xtoolsResp.body.rows[i].td
                          /\ \A k \in 1..(i - 1) : ~xtoolsResp.body.rows[k].td
              hasCell == \E i \in 1..Len(xtoolsResp.body.rows) : xtoolsResp.body.rows[i].td
              count == IF hasCell THEN xtoolsResp.body.rows[cell].data_value ELSE None
          IN /\ pc = "Done"
             /\ resp.statusCode = 200
             /\ resp.message.tmpl = "File {title}.json saved successful. Latest update: {last_date}. Month counts: {month_count}"
             /\ IsTrimOf(resp.message.title, event.value)
             /\ resp.message.last_date =
                   [year |-> text.yyyy, month |-> MonthNumber(text.month),
                    day |-> text.dd, sep |-> " ", hour |-> text.hh,
                    minute |-> text.mm, second |-> 0]
             /\ resp.message.month_count = (IF count.none THEN "None" ELSE count.s)
             /\ \E o \in storage : o.key = s3Req.key /\ o.body = s3Req.body
    /\ resp.statusCode = 200 =>
          (pc = "Done" /\ Left("Persisting") /\ calls.s3 = 1 /\ raised = Unset)

C5_Witness ==
    /\ pc = "Done" /\ resp.statusCode = 200 /\ month_count = None
    /\ title # event.value /\ resp.message.title = <<"a">>

SuccessStatus(st) == st \in 200..399

\* C6: the Page Fetcher fails on timeout, on connection failure and on a
\* non-success HTTP status: the body of a non-success response is never handed
\* to the extractor, the error propagates, and the fetch is not retried.
C6_FetcherFailsOnBadStatus ==
    /\ \A i \in 1..Len(parseLog) : SuccessStatus(parseLog[i].status)
    /\ \A a \in {wikiResp, xtoolsResp} :
          (a.outcome \in {"timeout", "connection"}
             \/ (a.outcome = "response" /\ ~SuccessStatus(a.status))) =>
                (pc = "Failed" /\ raised # Unset)
    /\ calls.wiki <= 1 /\ calls.xtools <= 1

HasCell(rows) == \E i \in 1..Len(rows) : rows[i].td
FirstCell(rows) ==
    CHOOSE i \in 1..Len(rows) : rows[i].td /\ \A k \in 1..(i - 1) : ~rows[k].td

\* C7: parse(page, 'xtools') never raises on a page without the month-counts
\* section or without a row holding an edit-count cell: it yields None in both
\* cases; with matching rows it returns the data-value of the first matching
\* cell in document order.
C7_StatsParseNeverRaises ==
    \A i \in 1..Len(parseLog) :
        parseLog[i].source = "xtools" =>
            LET page == parseLog[i].page
                r == parseLog[i].result
            IN /\ r.ok
               /\ IF page.section /\ HasCell(page.rows)
                  THEN r.val = page.rows[FirstCell(page.rows)].data_value
                  ELSE r.val = None

\* C8: two successive invocations for the same title with identical upstream
\* pages write the same key `{trimmed title}.json` with identical JSON content
\* ({number_updates_last_month, latest_update_time}); after successful
\* invocations there is exactly one object at that key, holding the record of
\* the latest invocation.
C8_Idempotent ==
    /\ (pc = "Done" /\ prev.valid /\ prev.title = event.value
          /\ prev.wiki = wikiResp.body /\ prev.xtools = xtoolsResp.body) =>
             (s3Req.key = prev.key /\ s3Req.body = prev.body)
    /\ pc = "Done" =>
          /\ \E t \in Titles : IsTrimOf(t, event.value) /\ s3Req.key = t \o <<".json">>
          /\ DOMAIN s3Req.body = {"number_updates_last_month", "latest_update_time"}
          /\ {o \in storage : o.key = s3Req.key} = {[key |-> s3Req.key, body |-> s3Req.body]}
    /\ (pc = "idle" /\ prev.valid) =>
          {o \in storage : o.key = prev.key} = {[key |-> prev.key, body |-> prev.body]}
    /\ \A o1, o2 \in storage : o1.key = o2.key => o1 = o2

\* a second successful run, same title and pages as the one before
C8_Witness ==
    /\ pc = "Done" /\ prev.valid /\ prev.title = event.value
    /\ prev.wiki = wikiResp.body /\ prev.xtools = xtoolsResp.body
    /\ s3Req.body = prev.body

\* a second successful run for the same key with other content: overwritten
C8_WitnessOverwrite ==
    /\ pc = "Done" /\ prev.valid /\ prev.key = s3Req.key /\ prev.body # s3Req.body
    /\ Cardinality(storage) = 1

\* C9: get_month_count asks for the window that ends on the timestamp's
\* calendar date and starts on day 1 of the same month and year, so
\* start <= end, and 2022-07-23 00:48 gives 2022-07-01 .. 2022-07-23; the time
\* of day plays no part.
C9_MonthWindow ==
    xtoolsReq # Unset =>
        LET text == wikiResp.body[1].contents[1]
            m == MonthNumber(text.month)
        IN /\ xtoolsReq.end_date = [year |-> text.yyyy, month |-> m, day |-> text.dd]
           /\ xtoolsReq.start_date = [year |-> text.yyyy, month |-> m, day |-> 1]
           /\ date_le(xtoolsReq.start_date, xtoolsReq.end_date)
           /\ (text.yyyy = 2022 /\ text.month = "July" /\ text.dd = 23) =>
                 /\ xtoolsReq.start_date = [year |-> 2022, month |-> 7, day |-> 1]
                 /\ xtoolsReq.end_date = [year |-> 2022, month |-> 7, day |-> 23]

C9_Witness ==
    /\ xtoolsReq # Unset
    /\ last_date = [year |-> 2022, month |-> 7, day |-> 23, hour |-> 0, minute |-> 48]
    /\ xtoolsReq.start_date = [year |-> 2022, month |-> 7, day |-> 1]
    /\ xtoolsReq.end_date = [year |-> 2022, month |-> 7, day |-> 23]

(***************************************************************************)
(* lambda_with_api_demo.py: LambdaCreator                                  *)
(*                                                                         *)
(* cloud: what exists in the AWS account; self: the fields of the object;  *)
(* cpc.at: the statement run() or delete_all() is at; cpc.by: who called   *)
(* delete_all ("run", or "main" after a KeyboardInterrupt).                *)
(***************************************************************************)
Flags == [IS_REQUIREMENTS : BOOLEAN, IS_API_CREATE : BOOLEAN, IS_REMOVE : BOOLEAN]

NoCCalls ==
    [get_function |-> 0, create_function |-> 0, update_function_code |-> 0,
     invoke_function |-> 0, update_function_configuration |-> 0,
     create_rest_api |-> 0, api_request |-> 0, delete_function |-> 0,
     role_delete |-> 0, delete_rest_api |-> 0]

\* LambdaWrapper (lambda_basics): get_function answers None for a missing function
wrapper_get_function(c) == c.function
\* LambdaWrapper.create_function: the function exists afterwards
wrapper_create_function(c) == [c EXCEPT !.function = TRUE]
\* LambdaWrapper.delete_function: the function is gone afterwards
wrapper_delete_function(c) == [c EXCEPT !.function = FALSE]

\* the state after LambdaCreator() (lines 16-37): the role exists, nothing else is set
CreatorInit ==
    /\ cpc = [at |-> "get_function", by |-> "run"]
    /\ conf \in Flags
    /\ \E f \in BOOLEAN, old \in SUBSET {"old"} :
          cloud = [function |-> f, found |-> f, role |-> TRUE, apis |-> old]
    /\ self = [lambda_arn |-> "none", apig_client |-> FALSE, api_id |-> "none"]
    /\ ccalls = NoCCalls

Call(name) == ccalls' = [ccalls EXCEPT ![name] = @ + 1]

\* an exception leaves run(); __main__ catches KeyboardInterrupt only
Raised == [at |-> "raised", by |-> cpc.by]

\* `if function is None` (line 179)
create_needed(function) == ~function

\* lines 177-179: function = self.wrapper.get_function(LAMBDA_NAME)
GetFunction(ok) ==
    /\ cpc.at = "get_function"
    /\ Call("get_function")
    /\ IF ~ok THEN cpc' = Raised /\ self' = self
       ELSE IF create_needed(wrapper_get_function(cloud))
       THEN cpc' = [cpc EXCEPT !.at = "create_function"] /\ self' = self
       ELSE /\ cpc' = [cpc EXCEPT !.at = "deploy"]
            /\ self' = [self EXCEPT !.lambda_arn = "arn"]
    /\ UNCHANGED <<conf, cloud, hvars>>

\* lines 180-187: package the script and create the function
CreateFunction(ok) ==
    /\ cpc.at = "create_function"
    /\ Call("create_function")
    /\ IF ok
       THEN /\ cloud' = wrapper_create_function(cloud)
            /\ self' = [self EXCEPT !.lambda_arn = "arn"]
            /\ cpc' = [cpc EXCEPT !.at = "deploy"]
       ELSE cpc' = Raised /\ UNCHANGED <<cloud, self>>
    /\ UNCHANGED <<conf, hvars>>

\* lines 195-197: if IS_REQUIREMENTS: update_function_code
DeployDependencies(ok) ==
    /\ cpc.at = "deploy"
    /\ IF conf.IS_REQUIREMENTS
       THEN /\ Call("update_function_code")
            /\ cpc' = IF ok THEN [cpc EXCEPT !.at = "invoke"] ELSE Raised
       ELSE /\ ok
            /\ cpc' = [cpc EXCEPT !.at = "invoke"]
            /\ ccalls' = ccalls
    /\ UNCHANGED <<conf, cloud, self, hvars>>

\* lines 199-202: self.wrapper.invoke_function(LAMBDA_NAME, action_params)
InvokeFunction(ok) ==
    /\ cpc.at = "invoke"
    /\ Call("invoke_function")
    /\ cpc' = IF ok THEN [cpc EXCEPT !.at = "configure"] ELSE Raised
    /\ UNCHANGED <<conf, cloud, self, hvars>>

\* line 203, then `if IS_API_CREATE` (line 252)
UpdateConfiguration(ok) ==
    /\ cpc.at = "configure"
    /\ Call("update_function_configuration")
    /\ cpc' = IF ~ok THEN Raised
              ELSE IF conf.IS_API_CREATE THEN [cpc EXCEPT !.at = "create_rest_api"]
              ELSE [cpc EXCEPT !.at = "remove"]
    /\ UNCHANGED <<conf, cloud, self, hvars>>

\* lines 206-210 and 54-60: the clients, then apig_client.create_rest_api
CreateRestApi(ok) ==
    /\ cpc.at = "create_rest_api"
    /\ Call("create_rest_api")
    /\ IF ok
       THEN /\ cloud' = [cloud EXCEPT !.apis = @ \cup {"new"}]
            /\ self' = [self EXCEPT !.apig_client = TRUE, !.api_id = "new"]
            /\ cpc' = [cpc EXCEPT !.at = "wire_api"]
       ELSE /\ cloud' = cloud
            /\ self' = [self EXCEPT !.apig_client = TRUE]
            /\ cpc' = Raised
    /\ UNCHANGED <<conf, hvars>>

\* lines 62-144: resources, method, integration, deployment, permission
WireApi(ok) ==
    /\ cpc.at = "wire_api"
    /\ cpc' = IF ok THEN [cpc EXCEPT !.at = "api_request"] ELSE Raised
    /\ UNCHANGED <<conf, cloud, self, ccalls, hvars>>

\* lines 211-223: requests.get(api_url, params=TEST_PARAMS) and its message
ApiRequest(ok) ==
    /\ cpc.at = "api_request"
    /\ Call("api_request")
    /\ cpc' = IF ok THEN [cpc EXCEPT !.at = "remove"] ELSE Raised
    /\ UNCHANGED <<conf, cloud, self, hvars>>

\* lines 255-257: `if IS_REMOVE: self.delete_all()`
Remove ==
    /\ cpc.at = "remove"
    /\ cpc' = IF conf.IS_REMOVE THEN [cpc EXCEPT !.at = "delete_function"]
              ELSE [cpc EXCEPT !.at = "returned"]
    /\ UNCHANGED <<conf, cloud, self, ccalls, hvars>>

\* lines 262-265: KeyboardInterrupt inside run() makes __main__ call delete_all
Interrupt ==
    /\ cpc.by = "run"
    /\ cpc.at \notin {"returned", "raised"}
    /\ cpc' = [at |-> "delete_function", by |-> "main"]
    /\ UNCHANGED <<conf, cloud, self, ccalls, hvars>>

\* line 229: self.wrapper.delete_function(LAMBDA_NAME)
DeleteFunction(ok) ==
    /\ cpc.at = "delete_function"
    /\ Call("delete_function")
    /\ IF ok /\ cloud.function
       THEN /\ cloud' = wrapper_delete_function(cloud)
            /\ cpc' = [cpc EXCEPT !.at = "delete_role"]
       ELSE cpc' = Raised /\ cloud' = cloud
    /\ UNCHANGED <<conf, self, hvars>>

\* `if self.apig_client and self.api_id` (line 234)
api_to_delete_never(s) == FALSE
api_to_delete(s) == s.apig_client /\ s.api_id # "none"

\* lines 230-234: detach the policies, delete the role
DeleteRole(ok) ==
    /\ cpc.at = "delete_role"
    /\ Call("role_delete")
    /\ IF ok
       THEN /\ cloud' = [cloud EXCEPT !.role = FALSE]
            /\ cpc' = IF api_to_delete(self)
                      THEN [cpc EXCEPT !.at = "delete_rest_api"]
                      ELSE [cpc EXCEPT !.at = IF cpc.by = "run" THEN "returned" ELSE "exited"]
       ELSE cpc' = Raised /\ cloud' = cloud
    /\ UNCHANGED <<conf, self, hvars>>

\* lines 235 and 158-167: apig_client.delete_rest_api(restApiId=self.api_id)
DeleteRestApi(ok) ==
    /\ cpc.at = "delete_rest_api"
    /\ Call("delete_rest_api")
    /\ IF ok
       THEN /\ cloud' = [cloud EXCEPT !.apis = @ \ {self.api_id}]
            /\ cpc' = [cpc EXCEPT !.at = IF cpc.by = "run" THEN "returned" ELSE "exited"]
       ELSE cpc' = Raised /\ cloud' = cloud
    /\ UNCHANGED <<conf, self, hvars>>

NextCreator ==
    \/ \E ok \in BOOLEAN : GetFunction(ok)
    \/ \E ok \in BOOLEAN : CreateFunction(ok)
    \/ \E ok \in BOOLEAN : DeployDependencies(ok)
    \/ \E ok \in BOOLEAN : InvokeFunction(ok)
    \/ \E ok \in BOOLEAN : UpdateConfiguration(ok)
    \/ \E ok \in BOOLEAN : CreateRestApi(ok)
    \/ \E ok \in BOOLEAN : WireApi(ok)
    \/ \E ok \in BOOLEAN : ApiRequest(ok)
    \/ Remove
    \/ Interrupt
    \/ \E ok \in BOOLEAN : DeleteFunction(ok)
    \/ \E ok \in BOOLEAN : DeleteRole(ok)
    \/ \E ok \in BOOLEAN : DeleteRestApi(ok)

InitCreator == HandlerInit /\ CreatorInit
SpecCreator == InitCreator /\ [][NextCreator]_vars

\* C10: run() creates the function only if get_function did not find it,
\* invokes it exactly once, and with IS_REMOVE, once run() has returned, the
\* Lambda function and the IAM role are deleted and the REST API is deleted
\* if and only if this run created one.
C10_RunCleansUp ==
    /\ ccalls.create_function <= 1
    /\ ccalls.create_function = 1 => ~cloud.found
    /\ (ccalls.invoke_function = 1 /\ ~cloud.found) => ccalls.create_function = 1
    /\ ccalls.invoke_function <= 1
    /\ cpc.at = "returned" =>
          /\ ccalls.invoke_function = 1
          /\ conf.IS_REMOVE =>
                /\ ~cloud.function /\ ~cloud.role
                /\ "new" \notin cloud.apis
                /\ ccalls.delete_function = 1 /\ ccalls.role_delete = 1
                /\ ccalls.delete_rest_api = ccalls.create_rest_api
                /\ ccalls.create_rest_api = (IF conf.IS_API_CREATE THEN 1 ELSE 0)
          /\ ~conf.IS_REMOVE =>
                /\ cloud.function /\ cloud.role
                /\ ccalls.delete_function = 0 /\ ccalls.delete_rest_api = 0

C10_Witness ==
    /\ cpc.at = "returned" /\ conf.IS_REMOVE /\ conf.IS_API_CREATE
    /\ ~cloud.found /\ ccalls.create_function = 1 /\ ccalls.delete_rest_api = 1
    /\ cloud.apis = {"old"}

====
